---- MODULE Spec2Model ----
(***************************************************************************)
(* LISE 5.0: the two lab orchestrators (orchestrator.py, strategy (a);     *)
(* orchestrator_vbox.py, strategy (b)) run against a GNS3 controller, and  *)
(* the Flask front-end (app.py) that launches orchestrator_vbox.py.        *)
(*                                                                         *)
(* The controller is the environment: every HTTP request draws its         *)
(* response from a small set (success, 409, 500, or no response at all),   *)
(* and the controller keeps its project list between runs.                 *)
(***************************************************************************)
EXTENDS Integers, Sequences, FiniteSets, TLC

\* ------------------------------------------------------------------ bounds
\* Stale projects bearing the lab name that the controller may hold at first.
MaxStale == 2
\* Orchestrator runs in a row against the same controller.
MaxRuns == 2
\* Longest time (seconds) one status poll request may take.
SlowPoll == 3
\* Polled statuses remembered per convergence wait (history only).
MaxLog == 3
\* Launch requests the front-end receives.
MaxRequests == 3
\* Entries of a template catalog (template resolution alone).
MaxCatalog == 3

\* ------------------------------------------------------- program constants
\* wait_for_node_status(..., timeout=180)
timeout == 180
\* time.sleep(5) between two polls
PollInterval == 5
\* for attempt in range(5)
MaxAttempts == 5
\* wait_time = 5 + attempt * 5
BackoffBase == 5
BackoffStep == 5
\* time.sleep(15) before powering on (orchestrator.py)
SettleDelay == 15
\* e.response.status_code == 409
Conflict == 409
\* an exception of requests that carries no response (e.response is None)
NoResponse == 0
\* project_id = None
None == 0

\* --------------------------------------------------------------- responses
\* What one HTTP request may come back with: 2xx, a conflict, another error
\* status, or a network-level error (no response).
Responses == {200, Conflict, 500, NoResponse}
\* Requests whose 409 is not told apart from any other error status.
PlainResponses == {200, 500, NoResponse}

\* session.get/post/delete raised before any response arrived
NetworkError(resp) == resp = NoResponse

\* response.raise_for_status(): raises HTTPError for 4xx and 5xx
RaisesForStatus(resp) == resp >= 400 /\ resp < 600

\* bool(response) of requests.Response is response.ok (status below 400);
\* bool(None) is False.
ResponseTruthy(resp) == resp # NoResponse /\ ~RaisesForStatus(resp)

\* Mutant of IsConflict: every error status is taken for a conflict.
IsConflictAnyStatus(resp) == resp # NoResponse /\ RaisesForStatus(resp)

\* orchestrator.py line 171: `e.response and e.response.status_code == 409`
IsConflict(resp) == ResponseTruthy(resp) /\ resp = Conflict

\* wait_time = 5 + attempt * 5
wait_time(att) == BackoffBase + att * BackoffStep

\* The while condition with <= for <: one more pass at exactly the timeout.
LoopConditionLate(el) == el <= timeout

\* Mutant of LoopCondition: the loop gives up one poll interval early.
LoopConditionEarly(el) == el + PollInterval < timeout

\* `while time.time() - start_time < timeout`
LoopCondition(el) == el < timeout

\* ----------------------------------------------------------- configuration
Scripts == {"orchestrator", "orchestrator_vbox"}

project_name(s) ==
    IF s = "orchestrator" THEN "LISE - Red vs Blue Lab 1"
    ELSE "LISE - Initial Scenario Lab"

\* The (name, type) pairs main() resolves, in call order.
WantedTemplates(s) ==
    IF s = "orchestrator"
    THEN << <<"Red-VM", "vmware">>, <<"Blue-VM", "vmware">>,
            <<"Ethernet switch", "ethernet_switch">> >>
    ELSE << <<"Kali-Red-Team", "virtualbox">>, <<"Kali-Blue-Team", "virtualbox">>,
            <<"Kali-Target-VM", "virtualbox">>,
            <<"Ethernet switch", "ethernet_switch">>, <<"Cloud_23aug", "cloud">> >>

\* The nodes main() creates, in call order: <<node name, index of its template
\* in WantedTemplates>>.
NodePlan(s) ==
    IF s = "orchestrator"
    THEN << <<"Lab-Switch", 3>>, <<"Red-Team-VM", 1>>, <<"Blue-Team-VM", 2>> >>
    ELSE << <<"Lab-Switch", 4>>, <<"Red-Team-VM", 1>>, <<"Blue-Team-VM", 2>>,
            <<"Target-VM", 3>>, <<"Cloud-Bridge", 5>> >>

\* The role names main() resolves with next(...), in order.
RoleNames(s) == [i \in 1..Len(NodePlan(s)) |-> NodePlan(s)[i][1]]

\* The link plan with both VMs of orchestrator.py cabled to switch port 0.
LinkPlanSamePort(s) ==
    IF s = "orchestrator"
    THEN << <<"Red-Team-VM", 0, "Lab-Switch", 0>>,
            <<"Blue-Team-VM", 0, "Lab-Switch", 0>> >>
    ELSE << <<"Red-Team-VM", 0, "Lab-Switch", 0>>,
            <<"Blue-Team-VM", 0, "Lab-Switch", 1>>,
            <<"Target-VM", 0, "Lab-Switch", 2>>,
            <<"Lab-Switch", 3, "Cloud-Bridge", 0>> >>

\* The links main() creates, in call order:
\* <<node a, port a, node b, port b>> (adapter 0 on both ends).
LinkPlan(s) ==
    IF s = "orchestrator"
    THEN << <<"Red-Team-VM", 0, "Lab-Switch", 0>>,
            <<"Blue-Team-VM", 0, "Lab-Switch", 1>> >>
    ELSE << <<"Red-Team-VM", 0, "Lab-Switch", 0>>,
            <<"Blue-Team-VM", 0, "Lab-Switch", 1>>,
            <<"Target-VM", 0, "Lab-Switch", 2>>,
            <<"Lab-Switch", 3, "Cloud-Bridge", 0>> >>

\* orchestrator_vbox.py Step 6: the nodes started, in order.
StartOrder == <<"Lab-Switch", "Red-Team-VM", "Blue-Team-VM", "Target-VM">>

\* Statuses a poll may report.
NodeStatuses == {"stopped", "starting", "started"}

\* ---------------------------------------------------------------- catalogs
\* A catalog holding every wanted template: first an entry with the name of
\* the first wanted template but another type, then the wanted ones, whose
\* template_id is their position in WantedTemplates.
FullCatalog(s) ==
    <<[name |-> WantedTemplates(s)[1][1], template_type |-> "qemu", template_id |-> 9]>>
    \o [i \in 1..Len(WantedTemplates(s)) |->
          [name |-> WantedTemplates(s)[i][1],
           template_type |-> WantedTemplates(s)[i][2],
           template_id |-> i]]

RemoveAt(seq, i) == [j \in 1..(Len(seq) - 1) |-> IF j < i THEN seq[j] ELSE seq[j + 1]]

\* Catalogs the controller may serve: the full one, and the full one with one
\* of the wanted entries missing.
Catalogs(s) ==
    {FullCatalog(s)} \cup {RemoveAt(FullCatalog(s), i) : i \in 2..Len(FullCatalog(s))}

\* get_template_id: the template_id of the first entry matching name and
\* type, None when there is none (the code raises ValueError).
\* get_template_id() letting a later matching entry override an earlier one.
RECURSIVE get_template_id_last(_, _, _)
get_template_id_last(cat, template_name, template_type) ==
    IF cat = <<>> THEN None
    ELSE LET rest == get_template_id_last(Tail(cat), template_name, template_type)
         IN  IF rest # None THEN rest
             ELSE IF Head(cat).name = template_name
                     /\ Head(cat).template_type = template_type
                  THEN Head(cat).template_id
                  ELSE None

RECURSIVE get_template_id(_, _, _)
get_template_id(cat, template_name, template_type) ==
    IF cat = <<>> THEN None
    ELSE IF Head(cat).name = template_name /\ Head(cat).template_type = template_type
         THEN Head(cat).template_id
         ELSE get_template_id(Tail(cat), template_name, template_type)

\* for p in response.json(): if p["name"] == project_name: ... break
\* The project_id of the first listed project with that name, None if none.
RECURSIVE FirstNamed(_, _)
FirstNamed(plist, pname) ==
    IF plist = <<>> THEN None
    ELSE IF Head(plist).name = pname THEN Head(plist).project_id
         ELSE FirstNamed(Tail(plist), pname)

\* next(n["node_id"] for n in nodes if n["name"] == name): None stands for
\* StopIteration.
RECURSIVE NodeIdByName(_, _)
NodeIdByName(nlist, nname) ==
    IF nlist = <<>> THEN None
    ELSE IF Head(nlist).name = nname THEN Head(nlist).node_id
         ELSE NodeIdByName(Tail(nlist), nname)

\* The controller's list without the project of that id.
RECURSIVE WithoutProject(_, _)
WithoutProject(plist, pid) ==
    IF plist = <<>> THEN <<>>
    ELSE IF Head(plist).project_id = pid THEN WithoutProject(Tail(plist), pid)
         ELSE <<Head(plist)>> \o WithoutProject(Tail(plist), pid)

\* How many listed projects bear that name.
RECURSIVE CountNamed(_, _)
CountNamed(plist, pname) ==
    IF plist = <<>> THEN 0
    ELSE (IF Head(plist).name = pname THEN 1 ELSE 0) + CountNamed(Tail(plist), pname)

\* ------------------------------------------------------------------- state
VARIABLES
    script,         \* which orchestrator this run executes
    run,            \* number of the current run (runs follow one another)
    pc,             \* position of main()
    idx,            \* index into the list the current step walks through
    catalog,        \* controller: GET /v2/templates
    projects,       \* controller: GET /v2/projects, [project_id, name] in order
    nextId,         \* controller: the next fresh project_id
    nodes,          \* controller: nodes of the created project, in order
    links,          \* controller: links of the created project, in order
    template_ids,   \* the template ids resolved so far, in call order
    compute_id,     \* orchestrator.py: computes[0]["compute_id"], None before
    stale,          \* p['project_id'] of the old lab project being cleaned up
    project_id,     \* main(): project_id, None until the project is created
    nodes_to_start, \* orchestrator.py: the node list of Step 8
    attempt,        \* orchestrator.py: attempt of the retry loop
    started,        \* nodes whose start request succeeded
    failed,         \* orchestrator.py: nodes skipped (start_success is False)
    ready,          \* orchestrator_vbox.py: nodes a wait returned for
    elapsed,        \* wait_for_node_status: time.time() - start_time
    polls,          \* polls made by the current wait
    sleeps,         \* time.sleep(5) calls made by the current wait
    pollLog,        \* the first MaxLog statuses the current wait polled
    waitResult,     \* how the last wait ended: none/waiting/returned/timeout/error
    trace,          \* requests and sleeps of this run, polling left out
    startLog,       \* start requests of this run with their responses
    lastResp,       \* response to the last request
    abortCause,     \* "none", or which exception ended the try block
    successMsg,     \* the final success message was printed
    returncode,     \* exit code of the orchestrator process, -1 while running
    created,        \* project ids created by the runs so far
    staleInit,      \* lab-named projects the controller held at first
    lab_status,     \* app.py: lab_status
    handler,        \* app.py: position of each launch_lab() request
    worker,         \* app.py: position of each run_orchestrator_script() thread
    proc            \* app.py: what became of each worker's subprocess

ctlVars == <<catalog, projects, nextId, nodes, links>>
runVars == <<script, run, created, staleInit>>
resVars == <<template_ids, compute_id, stale, project_id>>
startVars == <<nodes_to_start, attempt, started, failed, ready, startLog>>
waitVars == <<elapsed, polls, sleeps, pollLog, waitResult>>
endVars == <<abortCause, successMsg, returncode>>
webVars == <<lab_status, handler, worker, proc>>
orchVars == <<pc, idx, ctlVars, runVars, resVars, startVars, waitVars, endVars,
              trace, lastResp>>
vars == <<orchVars, webVars>>

Event(op, name, id) == [op |-> op, name |-> name, id |-> id]

\* A call followed by raise_for_status() raises on a network error and on a
\* 4xx/5xx response.
Raises(resp) == NetworkError(resp) \/ RaisesForStatus(resp)

\* Which exception a raising request ends the try block with.
CauseOf(resp) == IF NetworkError(resp) THEN "network_error" ELSE "controller_error"

Requests == 1..MaxRequests

\* The controller's first project list: one unrelated project, then n stale
\* projects bearing the lab name.
InitialProjects(s, n) ==
    [i \in 1..(n + 1) |->
        [project_id |-> i, name |-> IF i = 1 THEN "Other" ELSE project_name(s)]]

\* main() line 1: project_id = None, and the state of a fresh process.
FreshRun(s) ==
    /\ pc = (IF s = "orchestrator" THEN "kill_vmware" ELSE "version")
    /\ idx = 1
    /\ template_ids = <<>>
    /\ compute_id = None
    /\ stale = None
    /\ project_id = None
    /\ nodes_to_start = <<>>
    /\ attempt = 0
    /\ started = {}
    /\ failed = {}
    /\ ready = {}
    /\ elapsed = 0
    /\ polls = 0
    /\ sleeps = 0
    /\ pollLog = <<>>
    /\ waitResult = "none"
    /\ trace = <<>>
    /\ startLog = <<>>
    /\ lastResp = 200
    /\ abortCause = "none"
    /\ successMsg = FALSE
    /\ returncode = -1

\* The same state, as the next state of a run that starts over.
FreshRunNext(s) ==
    /\ pc' = (IF s = "orchestrator" THEN "kill_vmware" ELSE "version")
    /\ idx' = 1
    /\ template_ids' = <<>>
    /\ compute_id' = None
    /\ stale' = None
    /\ project_id' = None
    /\ nodes_to_start' = <<>>
    /\ attempt' = 0
    /\ started' = {}
    /\ failed' = {}
    /\ ready' = {}
    /\ elapsed' = 0
    /\ polls' = 0
    /\ sleeps' = 0
    /\ pollLog' = <<>>
    /\ waitResult' = "none"
    /\ trace' = <<>>
    /\ startLog' = <<>>
    /\ lastResp' = 200
    /\ abortCause' = "none"
    /\ successMsg' = FALSE
    /\ returncode' = -1

WebIdle ==
    /\ lab_status = "Idle"
    /\ handler = [r \in Requests |-> "none"]
    /\ worker = [r \in Requests |-> "none"]
    /\ proc = [r \in Requests |-> "none"]

Init ==
    /\ script \in Scripts
    /\ run = 1
    /\ created = <<>>
    /\ staleInit \in 0..MaxStale
    /\ catalog \in Catalogs(script)
    /\ projects = InitialProjects(script, staleInit)
    /\ nextId = staleInit + 2
    /\ nodes = <<>>
    /\ links = <<>>
    /\ FreshRun(script)
    /\ WebIdle

\* ------------------------------------------------- orchestrators: set-up
\* Step 0 (orchestrator.py): check_and_kill_vmware(). Local to the host;
\* a failed kill is caught and printed, so the step always goes on.
CheckAndKillVmware ==
    /\ pc = "kill_vmware"
    /\ pc' = "version"
    /\ trace' = Append(trace, Event("kill_vmware", "", 0))
    /\ UNCHANGED <<idx, ctlVars, runVars, resVars, startVars, waitVars, endVars,
                   lastResp, webVars>>

\* Step 1: GET /v2/version, raise_for_status().
VerifyConnection ==
    /\ pc = "version"
    /\ \E resp \in PlainResponses :
        /\ lastResp' = resp
        /\ trace' = Append(trace, Event("version", "", 0))
        /\ IF Raises(resp)
           THEN pc' = "finally" /\ abortCause' = CauseOf(resp)
           ELSE pc' = "templates" /\ abortCause' = abortCause
    /\ idx' = 1
    /\ UNCHANGED <<ctlVars, runVars, resVars, startVars, waitVars, successMsg,
                   returncode, webVars>>

\* Step 2: one get_template_id(name, type) call of main(): GET /v2/templates,
\* raise_for_status(), first match or ValueError.
ResolveTemplate ==
    /\ pc = "templates"
    /\ \E resp \in PlainResponses :
        LET want == WantedTemplates(script)[idx]
            tid == get_template_id(catalog, want[1], want[2])
            last == idx = Len(WantedTemplates(script))
        IN  /\ lastResp' = resp
            /\ trace' = Append(trace, Event("templates", want[1], 0))
            /\ IF Raises(resp)
               THEN /\ pc' = "finally" /\ abortCause' = CauseOf(resp)
                    /\ UNCHANGED <<template_ids, idx>>
               ELSE IF tid = None
               THEN /\ pc' = "finally" /\ abortCause' = "template_not_found"
                    /\ UNCHANGED <<template_ids, idx>>
               ELSE /\ template_ids' = Append(template_ids, tid)
                    /\ abortCause' = abortCause
                    /\ idx' = IF last THEN 1 ELSE idx + 1
                    /\ pc' = IF ~last THEN "templates"
                             ELSE IF script = "orchestrator" THEN "compute"
                             ELSE "list_projects"
    /\ UNCHANGED <<ctlVars, runVars, compute_id, stale, project_id, startVars,
                   waitVars, successMsg, returncode, webVars>>

\* Step 3 (orchestrator.py): get_compute_id(): GET /v2/computes, the first
\* entry, RuntimeError when the list is empty.
GetComputeId ==
    /\ pc = "compute"
    /\ \E resp \in PlainResponses, computes \in {0, 1} :
        /\ lastResp' = resp
        /\ trace' = Append(trace, Event("computes", "", 0))
        /\ IF Raises(resp)
           THEN pc' = "finally" /\ abortCause' = CauseOf(resp)
                /\ compute_id' = compute_id
           ELSE IF computes = 0
           THEN pc' = "finally" /\ abortCause' = "no_compute"
                /\ compute_id' = compute_id
           ELSE pc' = "list_projects" /\ abortCause' = abortCause
                /\ compute_id' = 1
    /\ UNCHANGED <<idx, ctlVars, runVars, template_ids, stale, project_id,
                   startVars, waitVars, successMsg, returncode, webVars>>

\* Step 3/4: GET /v2/projects, raise_for_status(), then the scan for the
\* first project bearing the lab name.
ListProjects ==
    /\ pc = "list_projects"
    /\ \E resp \in PlainResponses :
        LET old == FirstNamed(projects, project_name(script))
        IN  /\ lastResp' = resp
            /\ trace' = Append(trace, Event("list_projects", "", 0))
            /\ IF Raises(resp)
               THEN pc' = "finally" /\ abortCause' = CauseOf(resp) /\ stale' = stale
               ELSE /\ abortCause' = abortCause
                    /\ stale' = old
                    /\ pc' = IF old # None THEN "close_stale" ELSE "create_project"
    /\ UNCHANGED <<idx, ctlVars, runVars, template_ids, compute_id, project_id,
                   startVars, waitVars, successMsg, returncode, webVars>>

\* The close of the stale project with raise_for_status(): a refused close
\* ends the run before the delete.
CloseStaleChecked ==
    /\ pc = "close_stale"
    /\ \E resp \in PlainResponses :
        /\ lastResp' = resp
        /\ IF Raises(resp)
           THEN /\ pc' = "finally" /\ abortCause' = CauseOf(resp)
                /\ trace' = Append(trace, Event("close", "", stale))
           ELSE /\ pc' = "delete_stale" /\ abortCause' = abortCause
                /\ trace' = trace \o <<Event("close", "", stale), Event("sleep", "", 1)>>
    /\ UNCHANGED <<idx, ctlVars, runVars, resVars, startVars, waitVars, successMsg,
                   returncode, webVars>>

\* POST /v2/projects/{p['project_id']}/close without raise_for_status(), then
\* time.sleep(1): only a network error raises.
CloseStale ==
    /\ pc = "close_stale"
    /\ \E resp \in PlainResponses :
        /\ lastResp' = resp
        /\ IF NetworkError(resp)
           THEN /\ pc' = "finally" /\ abortCause' = CauseOf(resp)
                /\ trace' = Append(trace, Event("close", "", stale))
           ELSE /\ pc' = "delete_stale" /\ abortCause' = abortCause
                /\ trace' = trace \o <<Event("close", "", stale), Event("sleep", "", 1)>>
    /\ UNCHANGED <<idx, ctlVars, runVars, resVars, startVars, waitVars, successMsg,
                   returncode, webVars>>

\* Mutant of DeleteStale: raise_for_status() is missing, so a refused delete
\* goes unnoticed.
DeleteStaleUnchecked ==
    /\ pc = "delete_stale"
    /\ \E resp \in PlainResponses :
        /\ lastResp' = resp
        /\ IF NetworkError(resp)
           THEN /\ pc' = "finally" /\ abortCause' = CauseOf(resp)
                /\ trace' = Append(trace, Event("delete", "", stale))
                /\ projects' = projects
           ELSE /\ pc' = "create_project" /\ abortCause' = abortCause
                /\ trace' = trace \o <<Event("delete", "", stale), Event("sleep", "", 2)>>
                /\ projects' = IF RaisesForStatus(resp) THEN projects
                               ELSE WithoutProject(projects, stale)
    /\ UNCHANGED <<idx, catalog, nextId, nodes, links, runVars, resVars, startVars,
                   waitVars, successMsg, returncode, webVars>>

\* DELETE /v2/projects/{p['project_id']} with raise_for_status(); on success
\* the controller no longer lists the project (orchestrator_vbox.py also
\* removes its directory on the local disk), time.sleep(2), break.
DeleteStale ==
    /\ pc = "delete_stale"
    /\ \E resp \in PlainResponses :
        /\ lastResp' = resp
        /\ IF Raises(resp)
           THEN /\ pc' = "finally" /\ abortCause' = CauseOf(resp)
                /\ trace' = Append(trace, Event("delete", "", stale))
                /\ projects' = projects
           ELSE /\ pc' = "create_project" /\ abortCause' = abortCause
                /\ trace' = trace \o <<Event("delete", "", stale), Event("sleep", "", 2)>>
                /\ projects' = WithoutProject(projects, stale)
    /\ UNCHANGED <<idx, catalog, nextId, nodes, links, runVars, resVars, startVars,
                   waitVars, successMsg, returncode, webVars>>

\* Mutant of CreateProject: raise_for_status() is missing, so main() goes on
\* to the nodes after a refused create (no project, project_id stays None).
CreateProjectUnchecked ==
    /\ pc = "create_project"
    /\ \E resp \in PlainResponses :
        /\ lastResp' = resp
        /\ trace' = Append(trace, Event("create_project", "", 0))
        /\ IF NetworkError(resp)
           THEN /\ pc' = "finally" /\ abortCause' = CauseOf(resp)
                /\ UNCHANGED <<projects, nextId, project_id, created>>
           ELSE IF RaisesForStatus(resp)
           THEN /\ pc' = "create_node" /\ abortCause' = abortCause
                /\ UNCHANGED <<projects, nextId, project_id, created>>
           ELSE /\ pc' = "create_node" /\ abortCause' = abortCause
                /\ projects' = Append(projects,
                        [project_id |-> nextId, name |-> project_name(script)])
                /\ nextId' = nextId + 1
                /\ project_id' = nextId
                /\ created' = Append(created, nextId)
    /\ idx' = 1
    /\ nodes' = <<>>
    /\ links' = <<>>
    /\ UNCHANGED <<catalog, script, run, staleInit, template_ids, compute_id, stale,
                   startVars, waitVars, successMsg, returncode, webVars>>

\* POST /v2/projects {"name": project_name}, raise_for_status(),
\* project_id = project_data["project_id"]. The controller gives the new
\* project a fresh id and lists it last.
CreateProject ==
    /\ pc = "create_project"
    /\ \E resp \in PlainResponses :
        /\ lastResp' = resp
        /\ trace' = Append(trace, Event("create_project", "", 0))
        /\ IF Raises(resp)
           THEN /\ pc' = "finally" /\ abortCause' = CauseOf(resp)
                /\ UNCHANGED <<projects, nextId, project_id, created>>
           ELSE /\ pc' = "create_node" /\ abortCause' = abortCause
                /\ projects' = Append(projects,
                        [project_id |-> nextId, name |-> project_name(script)])
                /\ nextId' = nextId + 1
                /\ project_id' = nextId
                /\ created' = Append(created, nextId)
    /\ idx' = 1
    /\ nodes' = <<>>
    /\ links' = <<>>
    /\ UNCHANGED <<catalog, script, run, staleInit, template_ids, compute_id, stale,
                   startVars, waitVars, successMsg, returncode, webVars>>

\* Step 4/5: one create_node_from_template(project_id, name, template_id, x, y)
\* call: POST .../templates/{template_id}, raise_for_status(). The controller
\* may answer 2xx and yet not list the node afterwards. orchestrator_vbox.py
\* sleeps 10 s after the last one.
CreateNode ==
    /\ pc = "create_node"
    /\ \E resp \in PlainResponses, listed \in BOOLEAN :
        LET plan == NodePlan(script)[idx]
            last == idx = Len(NodePlan(script))
            ev == Event("create_node", plan[1], project_id)
        IN  /\ lastResp' = resp
            /\ IF Raises(resp)
               THEN /\ pc' = "finally" /\ abortCause' = CauseOf(resp)
                    /\ trace' = Append(trace, ev)
                    /\ UNCHANGED <<nodes, idx>>
               ELSE /\ abortCause' = abortCause
                    /\ nodes' = IF listed
                                THEN Append(nodes, [node_id |-> idx, name |-> plan[1],
                                                    template_id |-> template_ids[plan[2]]])
                                ELSE nodes
                    /\ idx' = IF last THEN 1 ELSE idx + 1
                    /\ pc' = IF last THEN "list_nodes" ELSE "create_node"
                    /\ trace' = IF last /\ script = "orchestrator_vbox"
                                THEN trace \o <<ev, Event("sleep", "", 10)>>
                                ELSE Append(trace, ev)
    /\ UNCHANGED <<catalog, projects, nextId, links, runVars, resVars, startVars,
                   waitVars, successMsg, returncode, webVars>>

\* The role resolution looking for the switch only.
AllResolvedSwitchOnly(nlist, s) == NodeIdByName(nlist, "Lab-Switch") # None

\* Every role name is found in the node list.
AllResolved(nlist, s) ==
    \A i \in 1..Len(RoleNames(s)) : NodeIdByName(nlist, RoleNames(s)[i]) # None

\* Step 5/6, first half: GET .../nodes, raise_for_status(), then one
\* next(...) per role; a missing role raises StopIteration.
ListNodes ==
    /\ pc = "list_nodes"
    /\ \E resp \in PlainResponses :
        /\ lastResp' = resp
        /\ trace' = Append(trace, Event("list_nodes", "", project_id))
        /\ IF Raises(resp)
           THEN pc' = "finally" /\ abortCause' = CauseOf(resp)
           ELSE IF ~AllResolved(nodes, script)
           THEN pc' = "finally" /\ abortCause' = "node_not_found"
           ELSE pc' = "create_link" /\ abortCause' = abortCause
    /\ idx' = 1
    /\ UNCHANGED <<ctlVars, runVars, resVars, startVars, waitVars, successMsg,
                   returncode, webVars>>

\* Step 5/6, second half: one link POST with raise_for_status(). After the
\* last link orchestrator.py goes to its settle delay, orchestrator_vbox.py to
\* the first start.
CreateLink ==
    /\ pc = "create_link"
    /\ \E resp \in PlainResponses :
        LET plan == LinkPlan(script)[idx]
            last == idx = Len(LinkPlan(script))
            payload == << [adapter_number |-> 0,
                           node_id |-> NodeIdByName(nodes, plan[1]),
                           port_number |-> plan[2]],
                          [adapter_number |-> 0,
                           node_id |-> NodeIdByName(nodes, plan[3]),
                           port_number |-> plan[4]] >>
        IN  /\ lastResp' = resp
            /\ trace' = Append(trace, Event("create_link", plan[1], project_id))
            /\ IF Raises(resp)
               THEN /\ pc' = "finally" /\ abortCause' = CauseOf(resp)
                    /\ UNCHANGED <<links, idx>>
               ELSE /\ abortCause' = abortCause
                    /\ links' = Append(links, payload)
                    /\ idx' = IF last THEN 1 ELSE idx + 1
                    /\ pc' = IF ~last THEN "create_link"
                             ELSE IF script = "orchestrator" THEN "settle"
                             ELSE "start_node"
    /\ UNCHANGED <<catalog, projects, nextId, nodes, runVars, resVars, startVars,
                   waitVars, successMsg, returncode, webVars>>

\* ------------------------------------- orchestrator.py: Steps 7 and 8
\* Step 7 without the sleep.
SettleSkipped ==
    /\ pc = "settle"
    /\ pc' = "list_start"
    /\ UNCHANGED <<idx, ctlVars, runVars, resVars, startVars, waitVars, endVars,
                   lastResp, trace, webVars>>

\* Step 7: time.sleep(15).
Settle ==
    /\ pc = "settle"
    /\ pc' = "list_start"
    /\ trace' = Append(trace, Event("sleep", "", SettleDelay))
    /\ UNCHANGED <<idx, ctlVars, runVars, resVars, startVars, waitVars, endVars,
                   lastResp, webVars>>

\* Step 8, the list: GET .../nodes, raise_for_status(),
\* nodes_to_start = response.json(). An empty list ends the loop at once.
ListNodesToStart ==
    /\ pc = "list_start"
    /\ \E resp \in PlainResponses :
        /\ lastResp' = resp
        /\ trace' = Append(trace, Event("list_nodes", "", project_id))
        /\ IF Raises(resp)
           THEN /\ pc' = "finally" /\ abortCause' = CauseOf(resp)
                /\ UNCHANGED <<nodes_to_start, successMsg>>
           ELSE /\ abortCause' = abortCause
                /\ nodes_to_start' = nodes
                /\ pc' = IF nodes = <<>> THEN "finally" ELSE "start"
                /\ successMsg' = (nodes = <<>>)
    /\ idx' = 1
    /\ attempt' = 0
    /\ UNCHANGED <<ctlVars, runVars, resVars, started, failed, ready, startLog,
                   waitVars, returncode, webVars>>

\* Step 8, one pass through the body of `for attempt in range(5)` for
\* nodes_to_start[idx]: the start POST with raise_for_status(), then
\*   success: start_success = True, break, next node;
\*   a RequestException for which line 171 holds: sleep wait_time, next
\*     attempt, and after the fifth attempt "Skipping", next node;
\*   any other RequestException: raise e.
\* After the last node the success message is printed.
StartAttempt ==
    /\ pc = "start"
    /\ \E resp \in Responses :
        LET node == nodes_to_start[idx]
            lastNode == idx = Len(nodes_to_start)
            ev == Event("start", node.name, node.node_id)
            leave == ~Raises(resp) \/ attempt = MaxAttempts - 1
        IN  /\ lastResp' = resp
            /\ startLog' = Append(startLog, [name |-> node.name, resp |-> resp])
            /\ IF ~Raises(resp)
               THEN /\ started' = started \cup {node.name}
                    /\ trace' = Append(trace, ev)
                    /\ UNCHANGED <<failed, abortCause>>
                    /\ pc' = IF lastNode THEN "finally" ELSE "start"
                    /\ successMsg' = lastNode
                    /\ idx' = IF lastNode THEN idx ELSE idx + 1
                    /\ attempt' = 0
               ELSE IF IsConflict(resp)
               THEN /\ trace' = trace \o <<ev, Event("sleep", node.name, wait_time(attempt))>>
                    /\ failed' = IF leave THEN failed \cup {node.name} ELSE failed
                    /\ UNCHANGED <<started, abortCause>>
                    /\ pc' = IF leave /\ lastNode THEN "finally" ELSE "start"
                    /\ successMsg' = (leave /\ lastNode)
                    /\ idx' = IF leave /\ ~lastNode THEN idx + 1 ELSE idx
                    /\ attempt' = IF leave THEN 0 ELSE attempt + 1
               ELSE /\ trace' = Append(trace, ev)
                    /\ pc' = "finally"
                    /\ abortCause' = CauseOf(resp)
                    /\ UNCHANGED <<started, failed, successMsg, idx, attempt>>
    /\ UNCHANGED <<ctlVars, runVars, resVars, nodes_to_start, ready, waitVars,
                   returncode, webVars>>

\* --------------------------------------- orchestrator_vbox.py: Step 6
desired_status == "started"

\* Mutant of StatusReached: any status but "stopped" ends the wait.
StatusReachedNotStopped(current_status, desired) == current_status # "stopped"

\* wait_for_node_status line 45: `if current_status == desired_status`
StatusReached(current_status, desired) == current_status = desired

\* Step 6 with the conflict handling of orchestrator.py: a 409 answer to a
\* start is followed by a backoff sleep and another start of the same node.
StartNodeRetrying ==
    /\ pc = "start_node"
    /\ \E resp \in Responses :
        LET name == StartOrder[idx]
            ev == Event("start", name, NodeIdByName(nodes, name))
            again == resp = Conflict /\ attempt < MaxAttempts - 1
        IN  /\ lastResp' = resp
            /\ startLog' = Append(startLog, [name |-> name, resp |-> resp])
            /\ trace' = IF again
                        THEN trace \o <<ev, Event("sleep", name, wait_time(attempt))>>
                        ELSE Append(trace, ev)
            /\ attempt' = IF again THEN attempt + 1 ELSE 0
            /\ IF again
               THEN /\ pc' = "start_node" /\ abortCause' = abortCause
                    /\ UNCHANGED <<started, waitResult>>
               ELSE IF Raises(resp)
               THEN /\ pc' = "finally" /\ abortCause' = CauseOf(resp)
                    /\ UNCHANGED <<started, waitResult>>
               ELSE /\ pc' = "wait" /\ abortCause' = abortCause
                    /\ started' = started \cup {name}
                    /\ waitResult' = "waiting"
    /\ elapsed' = 0
    /\ polls' = 0
    /\ sleeps' = 0
    /\ pollLog' = <<>>
    /\ UNCHANGED <<idx, ctlVars, runVars, resVars, nodes_to_start, failed,
                   ready, successMsg, returncode, webVars>>

\* One start of Step 6: POST .../nodes/{id}/start with raise_for_status(),
\* then wait_for_node_status is entered (start_time = time.time()). The locals
\* of the wait before (elapsed, polls, sleeps, pollLog) are gone by now.
StartNode ==
    /\ pc = "start_node"
    /\ \E resp \in Responses :
        LET name == StartOrder[idx]
        IN  /\ lastResp' = resp
            /\ startLog' = Append(startLog, [name |-> name, resp |-> resp])
            /\ trace' = Append(trace, Event("start", name, NodeIdByName(nodes, name)))
            /\ IF Raises(resp)
               THEN /\ pc' = "finally" /\ abortCause' = CauseOf(resp)
                    /\ UNCHANGED <<started, waitResult>>
               ELSE /\ pc' = "wait" /\ abortCause' = abortCause
                    /\ started' = started \cup {name}
                    /\ waitResult' = "waiting"
    /\ elapsed' = 0
    /\ polls' = 0
    /\ sleeps' = 0
    /\ pollLog' = <<>>
    /\ UNCHANGED <<idx, ctlVars, runVars, resVars, nodes_to_start, attempt, failed,
                   ready, successMsg, returncode, webVars>>

\* One pass through the body of the while loop of wait_for_node_status: the
\* GET (taking no time or SlowPoll seconds) with raise_for_status(), return if
\* the status is the desired one, else time.sleep(5). After the wait for the
\* last node returns, the success message is printed.
PollNode ==
    /\ pc = "wait"
    /\ LoopCondition(elapsed)
    /\ \E resp \in PlainResponses, d \in {0, SlowPoll}, current_status \in NodeStatuses :
        LET lastNode == idx = Len(StartOrder)
        IN  /\ lastResp' = resp
            /\ IF Raises(resp)
               THEN /\ pc' = "finally" /\ abortCause' = CauseOf(resp)
                    /\ waitResult' = "error"
                    /\ UNCHANGED <<elapsed, polls, sleeps, pollLog, ready, idx,
                                   successMsg>>
               ELSE /\ polls' = polls + 1
                    /\ pollLog' = IF polls < MaxLog THEN Append(pollLog, current_status)
                                  ELSE <<>>
                    /\ abortCause' = abortCause
                    /\ IF StatusReached(current_status, desired_status)
                       THEN /\ waitResult' = "returned"
                            /\ ready' = ready \cup {StartOrder[idx]}
                            /\ pc' = IF lastNode THEN "finally" ELSE "start_node"
                            /\ successMsg' = lastNode
                            /\ idx' = IF lastNode THEN idx ELSE idx + 1
                            /\ UNCHANGED <<elapsed, sleeps>>
                       ELSE /\ elapsed' = elapsed + d + PollInterval
                            /\ sleeps' = sleeps + 1
                            /\ UNCHANGED <<waitResult, ready, pc, successMsg, idx>>
    /\ UNCHANGED <<ctlVars, runVars, resVars, nodes_to_start, attempt, started,
                   failed, startLog, trace, returncode, webVars>>

\* Mutant of WaitTimeout: the loop ends without raising, and main() goes on
\* with the next node.
WaitTimeoutReturns ==
    /\ pc = "wait"
    /\ ~(elapsed < timeout)
    /\ pc' = IF idx = Len(StartOrder) THEN "finally" ELSE "start_node"
    /\ idx' = IF idx = Len(StartOrder) THEN idx ELSE idx + 1
    /\ successMsg' = (idx = Len(StartOrder))
    /\ waitResult' = "timeout"
    /\ UNCHANGED <<ctlVars, runVars, resVars, startVars, elapsed, polls, sleeps,
                   pollLog, abortCause, returncode, trace, lastResp, webVars>>

\* The while condition fails: raise Exception("Timeout: ...").
WaitTimeout ==
    /\ pc = "wait"
    /\ ~LoopCondition(elapsed)
    /\ pc' = "finally"
    /\ abortCause' = "timeout"
    /\ waitResult' = "timeout"
    /\ UNCHANGED <<idx, ctlVars, runVars, resVars, startVars, elapsed, polls, sleeps,
                   pollLog, successMsg, returncode, trace, lastResp, webVars>>

\* ------------------------------------------------- the end of main()
\* What may end an orchestrator process.
AbortCauses == {"controller_error", "network_error", "template_not_found",
                "no_compute", "node_not_found", "timeout"}

\* The exit code of an orchestrator process. Both main() functions catch every
\* Exception of the try block and return, so the interpreter exits 0; a
\* network error of the close request in the finally block of orchestrator.py
\* is not caught (exit code 1); a process ended by a signal has a negative code.
ProcessReturncode(s, cause, closeRaised) ==
    IF cause = "killed" THEN -9
    ELSE IF s = "orchestrator" /\ closeRaised THEN 1
    ELSE 0

\* The finally block of orchestrator.py closing without the test of
\* project_id.
FinallyAlwaysCloses ==
    /\ pc = "finally"
    /\ pc' = "done"
    /\ \E resp \in PlainResponses :
        IF script = "orchestrator"
        THEN /\ lastResp' = resp
             /\ trace' = Append(trace, Event("close", "", project_id))
             /\ returncode' = ProcessReturncode(script, abortCause, NetworkError(resp))
        ELSE /\ returncode' = ProcessReturncode(script, abortCause, FALSE)
             /\ UNCHANGED <<lastResp, trace>>
    /\ elapsed' = 0
    /\ polls' = 0
    /\ sleeps' = 0
    /\ pollLog' = <<>>
    /\ UNCHANGED <<idx, ctlVars, runVars, resVars, startVars, waitResult, abortCause,
                   successMsg, webVars>>

\* The finally block. orchestrator.py: `if project_id:` POST
\* /v2/projects/{project_id}/close (no raise_for_status()).
\* orchestrator_vbox.py: `if project_id: pass`.
\* The process then ends; only how the last wait ended is kept of it.
Finally ==
    /\ pc = "finally"
    /\ pc' = "done"
    /\ \E resp \in PlainResponses :
        IF script = "orchestrator" /\ project_id # None
        THEN /\ lastResp' = resp
             /\ trace' = Append(trace, Event("close", "", project_id))
             /\ returncode' = ProcessReturncode(script, abortCause, NetworkError(resp))
        ELSE /\ returncode' = ProcessReturncode(script, abortCause, FALSE)
             /\ UNCHANGED <<lastResp, trace>>
    /\ elapsed' = 0
    /\ polls' = 0
    /\ sleeps' = 0
    /\ pollLog' = <<>>
    /\ UNCHANGED <<idx, ctlVars, runVars, resVars, startVars, waitResult, abortCause,
                   successMsg, webVars>>

\* The script is run again; the controller keeps its projects.
Rerun ==
    /\ pc = "done"
    /\ run < MaxRuns
    /\ run' = run + 1
    /\ FreshRunNext(script)
    /\ nodes' = <<>>
    /\ links' = <<>>
    /\ UNCHANGED <<script, created, staleInit, catalog, projects, nextId, webVars>>

\* ------------------------------------------------------------ app.py
\* launch_lab(), lines 81 and 88: the JSON status and the HTTP code a handler
\* that has returned answers with.
HandlerResponse(h) ==
    IF h = "rejected" THEN [status |-> "already_running", code |-> 409]
    ELSE [status |-> "success", code |-> 200]

\* launch_lab() without the test of lab_status.
LaunchCheckAlways(r) ==
    /\ handler[r] = "none"
    /\ handler' = [handler EXCEPT ![r] = "checked"]
    /\ UNCHANGED <<orchVars, lab_status, worker, proc>>

\* launch_lab(), line 80: the test of lab_status; "rejected" is the
\* already_running response (409).
LaunchCheck(r) ==
    /\ handler[r] = "none"
    /\ handler' = [handler EXCEPT ![r] =
                     IF lab_status = "Launching..." THEN "rejected" ELSE "checked"]
    /\ UNCHANGED <<orchVars, lab_status, worker, proc>>

\* launch_lab(), lines 84-88: thread.start() and the success response.
LaunchStart(r) ==
    /\ handler[r] = "checked"
    /\ handler' = [handler EXCEPT ![r] = "accepted"]
    /\ worker' = [worker EXCEPT ![r] = "spawned"]
    /\ UNCHANGED <<orchVars, lab_status, proc>>

\* run_orchestrator_script(), line 24: lab_status = "Launching...".
WorkerBegin(w) ==
    /\ worker[w] = "spawned"
    /\ lab_status' = "Launching..."
    /\ worker' = [worker EXCEPT ![w] = "launching"]
    /\ UNCHANGED <<orchVars, handler, proc>>

\* run_orchestrator_script() without the except block: a Popen that raises
\* ends the thread with lab_status as it was.
WorkerPopenNoExcept(w) ==
    /\ worker[w] = "launching"
    /\ \E spawned \in BOOLEAN :
        IF spawned
        THEN /\ worker' = [worker EXCEPT ![w] = "running"]
             /\ proc' = [proc EXCEPT ![w] = "running"]
             /\ UNCHANGED lab_status
        ELSE /\ worker' = [worker EXCEPT ![w] = "finished"]
             /\ proc' = [proc EXCEPT ![w] = "spawn_failed"]
             /\ UNCHANGED lab_status
    /\ UNCHANGED <<orchVars, handler>>

\* run_orchestrator_script(), lines 35-42: subprocess.Popen(...); if it raises,
\* the except block sets lab_status = "Error".
WorkerPopen(w) ==
    /\ worker[w] = "launching"
    /\ \E spawned \in BOOLEAN :
        IF spawned
        THEN /\ worker' = [worker EXCEPT ![w] = "running"]
             /\ proc' = [proc EXCEPT ![w] = "running"]
             /\ UNCHANGED lab_status
        ELSE /\ worker' = [worker EXCEPT ![w] = "finished"]
             /\ proc' = [proc EXCEPT ![w] = "spawn_failed"]
             /\ lab_status' = "Error"
    /\ UNCHANGED <<orchVars, handler>>

\* How a pass of orchestrator_vbox.py may end.
PassOutcomes == {"none", "killed"} \cup (AbortCauses \ {"no_compute"})

\* run_orchestrator_script(), lines 45-57: the output is read to its end,
\* process.wait(), and the status is set from process.returncode.
WorkerWait(w) ==
    /\ worker[w] = "running"
    /\ \E cause \in PassOutcomes :
        /\ proc' = [proc EXCEPT ![w] = cause]
        /\ lab_status' = IF ProcessReturncode("orchestrator_vbox", cause, FALSE) = 0
                         THEN "Successfully Deployed"
                         ELSE "Error"
    /\ worker' = [worker EXCEPT ![w] = "finished"]
    /\ UNCHANGED <<orchVars, handler>>

\* ------------------------------------------------------ specifications
Next ==
    \/ CheckAndKillVmware
    \/ VerifyConnection
    \/ ResolveTemplate
    \/ GetComputeId
    \/ ListProjects
    \/ CloseStale
    \/ DeleteStale
    \/ CreateProject
    \/ CreateNode
    \/ ListNodes
    \/ CreateLink
    \/ Settle
    \/ ListNodesToStart
    \/ StartAttempt
    \/ StartNode
    \/ PollNode
    \/ WaitTimeout
    \/ Finally
    \/ Rerun

\* The orchestrators, run from the command line against one controller.
Spec == Init /\ [][Next]_vars

\* The orchestrators when every HTTP request returns and every sleep ends: a
\* process that has not ended takes its next step.
SpecFair == Init /\ [][Next]_vars /\ WF_vars(pc # "done" /\ Next)

InitWeb ==
    /\ script = "orchestrator_vbox"
    /\ run = 1
    /\ created = <<>>
    /\ staleInit = 0
    /\ catalog = FullCatalog(script)
    /\ projects = InitialProjects(script, staleInit)
    /\ nextId = staleInit + 2
    /\ nodes = <<>>
    /\ links = <<>>
    /\ FreshRun(script)
    /\ WebIdle

NextWeb ==
    \E r \in Requests :
        \/ LaunchCheck(r)
        \/ LaunchStart(r)
        \/ WorkerBegin(r)
        \/ WorkerPopen(r)
        \/ WorkerWait(r)

\* The front-end: MaxRequests launch requests and the worker threads they
\* start, interleaved in every order.
SpecWeb == InitWeb /\ [][NextWeb]_vars

\* The front-end when threads are scheduled and every orchestrator subprocess
\* terminates: a handler past its test goes on to thread.start(), and a worker
\* thread takes its next step. Launch requests arrive or not.
SpecWebFair ==
    /\ SpecWeb
    /\ \A r \in Requests :
          WF_vars(LaunchStart(r) \/ WorkerBegin(r) \/ WorkerPopen(r) \/ WorkerWait(r))

\* ------------------------------------------- template resolution alone
\* Entries a catalog may hold: the names of the first two wanted templates,
\* each under the wanted type of the first or under another type, with one of
\* two template ids.
CatalogEntries(s) ==
    [name : {WantedTemplates(s)[1][1], WantedTemplates(s)[2][1]},
     template_type : {WantedTemplates(s)[1][2], "qemu"},
     template_id : {1, 2}]

\* Every catalog of at most MaxCatalog such entries, duplicates included.
BoundedCatalogs(s) ==
    UNION {[1..n -> CatalogEntries(s)] : n \in 0..MaxCatalog}

InitResolve ==
    /\ script \in Scripts
    /\ run = 1
    /\ created = <<>>
    /\ staleInit = 0
    /\ catalog \in BoundedCatalogs(script)
    /\ projects = InitialProjects(script, staleInit)
    /\ nextId = staleInit + 2
    /\ nodes = <<>>
    /\ links = <<>>
    /\ FreshRun(script)
    /\ WebIdle

NextResolve ==
    \/ CheckAndKillVmware
    \/ VerifyConnection
    \/ ResolveTemplate

\* main() up to the end of Step 2: the get_template_id calls of main(), one
\* after the other, against catalogs of every shape.
SpecResolve == InitResolve /\ [][NextResolve]_vars

\* ------------------------------------------------------------ properties
Last(seq) == seq[Len(seq)]

\* How many start requests of the log went to that node.
CountFor(log, name) == Cardinality({i \in 1..Len(log) : log[i].name = name})

\* How many conflict responses in a row, all for the node of the last start
\* request, end the log.
RECURSIVE TrailingConflicts(_)
TrailingConflicts(log) ==
    IF log = <<>> \/ Last(log).resp # Conflict THEN 0
    ELSE LET rest == SubSeq(log, 1, Len(log) - 1)
         IN  IF rest # <<>> /\ Last(rest).name = Last(log).name
             THEN 1 + TrailingConflicts(rest)
             ELSE 1

\* How many close requests of the trace went to that project.
CloseCount(tr, pid) ==
    Cardinality({i \in 1..Len(tr) : tr[i].op = "close" /\ tr[i].id = pid})

\* Worker threads that are inside run_orchestrator_script().
ActivePasses == {w \in Requests : worker[w] \in {"launching", "running"}}

\* C1: in the front-end, at most one orchestration pass
\* (run_orchestrator_script) is active at any time, whatever the interleaving
\* of launch requests and worker steps.
C1_AtMostOnePassActive == Cardinality(ActivePasses) <= 1

\* C2: orchestrator.py: a node answered with k conflicts (409), 1 <= k <= 4,
\* is waited for 5*k seconds after the k-th conflict and started again (the
\* run is not aborted); and once a success follows the k conflicts, the node
\* got exactly k+1 start requests and is recorded as started.
C2_ConflictIsRetriedWithBackoff ==
    script = "orchestrator" /\ startLog # <<>> =>
        LET k == TrailingConflicts(startLog)
            before == SubSeq(startLog, 1, Len(startLog) - 1)
            kb == TrailingConflicts(before)
        IN  /\ k \in 1..(MaxAttempts - 1) =>
                /\ abortCause = "none"
                /\ pc = "start"
                /\ attempt = k
                /\ nodes_to_start[idx].name = Last(startLog).name
                /\ Last(trace) = Event("sleep", Last(startLog).name, 5 * k)
            /\ ( /\ ~Raises(Last(startLog).resp)
                 /\ kb \in 1..(MaxAttempts - 1)
                 /\ Last(before).name = Last(startLog).name ) =>
                /\ CountFor(startLog, Last(startLog).name) = kb + 1
                /\ Last(startLog).name \in started
                /\ abortCause = "none"

\* C3: orchestrator.py: a node whose five start attempts were all answered
\* with a conflict (409) is marked failed without the run aborting: no run
\* ends its try block on a conflict, a failed node got exactly five start
\* requests, and a run that ended with a failed node ended on the success
\* path after going through every node of the list.
C3_ExhaustedNodeIsSkipped ==
    script = "orchestrator" =>
        /\ (startLog # <<>> /\ Last(startLog).resp = Conflict
                /\ pc \in {"finally", "done"}) =>
              /\ abortCause = "none"
              /\ successMsg
              /\ Last(startLog).name \in failed
        /\ \A n \in failed : CountFor(startLog, n) = MaxAttempts
        /\ (failed # {} /\ pc = "done" /\ abortCause = "none") =>
              /\ successMsg
              /\ \A i \in 1..Len(nodes_to_start) :
                    CountFor(startLog, nodes_to_start[i].name) >= 1

\* A start request that failed for good: a non-409 error status, or no
\* response at all.
FatalStart(entry) ==
    NetworkError(entry.resp) \/ (RaisesForStatus(entry.resp) /\ entry.resp # Conflict)

\* C4: in both orchestrators, a start request that fails with a non-409 error
\* status or with a network error is the last start request of the run, and
\* the run aborts (no success message).
C4_FatalStartErrorEndsStarts ==
    \A i \in 1..Len(startLog) :
        FatalStart(startLog[i]) =>
            /\ i = Len(startLog)
            /\ pc \in {"finally", "done"}
            /\ abortCause = CauseOf(startLog[i].resp)
            /\ ~successMsg

\* C4 witness: orchestrator_vbox.py ended after the start of the second node
\* met a network error, the first node having started and converged.
C4_Witness ==
    /\ script = "orchestrator_vbox"
    /\ pc = "done"
    /\ Len(startLog) = 2
    /\ ~Raises(startLog[1].resp)
    /\ NetworkError(startLog[2].resp)
    /\ "Lab-Switch" \in ready

\* C5: in both orchestrators, a run that created a project has issued the
\* close request for that project exactly once when it ends, as its last
\* request (so after the last start attempt), whether it aborted or not.
C5_CreatedProjectClosedOnce ==
    (pc = "done" /\ project_id # None) =>
        /\ CloseCount(trace, project_id) = 1
        /\ Last(trace) = Event("close", "", project_id)

\* C6: the status is the success label only if a pass of the front-end
\* completed every phase without aborting, and a single pass that aborted
\* leaves the status at the error label.
C6_StatusReflectsOutcome ==
    /\ lab_status = "Successfully Deployed" =>
          \E w \in Requests : worker[w] = "finished" /\ proc[w] = "none"
    /\ \A w \in Requests :
          ( /\ worker[w] = "finished"
            /\ proc[w] \in AbortCauses
            /\ \A v \in Requests \ {w} : worker[v] = "none" ) =>
          lab_status = "Error"

\* C7: orchestrator_vbox.py issues its start requests in the order
\* Lab-Switch, Red-Team-VM, Blue-Team-VM, Target-VM, each node at most once,
\* and the start of a node only after a poll observed "started" for the node
\* before it (so no VM start before the switch was observed "started").
C7_SequentialStartOrder ==
    script = "orchestrator_vbox" =>
        /\ Len(startLog) <= Len(StartOrder)
        /\ \A i \in 1..Len(startLog) :
              /\ startLog[i].name = StartOrder[i]
              /\ i > 1 => StartOrder[i - 1] \in ready
              /\ i > 1 => "Lab-Switch" \in ready
        /\ \A n \in ready : CountFor(startLog, n) = 1

\* C7 witness: the fourth start was issued, the three nodes before it having
\* been observed "started".
C7_Witness ==
    /\ script = "orchestrator_vbox"
    /\ pc = "wait"
    /\ Len(startLog) = 4
    /\ ready = {"Lab-Switch", "Red-Team-VM", "Blue-Team-VM"}

\* C8: wait_for_node_status raises its timeout once the elapsed time has
\* reached 180 s without a poll observing the desired status, and never
\* earlier; the timeout aborts the run: no later node is started and the
\* success message is not reached.
C8_TimeoutIsFatalAndNotEarly ==
    script = "orchestrator_vbox" =>
        /\ (pc = "wait" /\ elapsed >= timeout) =>
              ENABLED WaitTimeout /\ ~ENABLED PollNode
        /\ (pc = "wait" /\ elapsed < timeout) => ~ENABLED WaitTimeout
        /\ waitResult = "timeout" =>
              /\ abortCause = "timeout"
              /\ pc \in {"finally", "done"}
              /\ ~successMsg
              /\ Len(startLog) = idx
              /\ Last(startLog).name = StartOrder[idx]
              /\ StartOrder[idx] \notin ready
              /\ pc = "finally" =>
                    elapsed >= timeout /\ polls >= 1 /\ sleeps = polls

\* C8 witness: the run ended on the timeout of the wait for the second node.
C8_Witness ==
    /\ script = "orchestrator_vbox"
    /\ pc = "done"
    /\ waitResult = "timeout"
    /\ StartOrder[idx] = "Red-Team-VM"
    /\ "Lab-Switch" \in ready

\* The wait for StartOrder[idx] has just returned to main().
JustReturned ==
    /\ waitResult = "returned"
    /\ \/ pc = "start_node"
       \/ pc = "finally" /\ successMsg

\* C9: wait_for_node_status returns exactly when a poll made within the
\* timeout window observes the desired status, and at the first such poll:
\* while it waits no poll has observed it, when it returns the last poll (made
\* before the timeout) observed it and none before did, with one 5-second
\* sleep between two polls; the polled sequence starting, starting, started
\* makes it return after exactly 3 polls and 2 sleeps.
C9_ReturnsAtFirstDesiredPoll ==
    script = "orchestrator_vbox" =>
        /\ pc = "wait" =>
              /\ waitResult = "waiting"
              /\ sleeps = polls
              /\ elapsed >= PollInterval * polls
              /\ \A j \in 1..Len(pollLog) : pollLog[j] # desired_status
              /\ StartOrder[idx] \notin ready
        /\ JustReturned =>
              /\ polls >= 1
              /\ sleeps = polls - 1
              /\ elapsed >= PollInterval * sleeps
              /\ elapsed < timeout
              /\ polls <= MaxLog =>
                    /\ Len(pollLog) = polls
                    /\ pollLog[polls] = desired_status
                    /\ \A j \in 1..(polls - 1) : pollLog[j] # desired_status
        /\ waitResult \in {"timeout", "error"} => StartOrder[idx] \notin ready
        /\ pollLog = <<"starting", "starting", "started">> =>
              JustReturned /\ polls = 3 /\ sleeps = 2

\* C9 witness: the wait for the switch returned at the third poll of the
\* sequence starting, starting, started.
C9_Witness ==
    /\ script = "orchestrator_vbox"
    /\ pc = "start_node"
    /\ waitResult = "returned"
    /\ idx = 2
    /\ pollLog = <<"starting", "starting", "started">>
    /\ polls = 3

\* C10: when the controller holds no project of the lab name at first, every
\* run of the clean-up-and-create sequence that creates a project gets a
\* project_id no earlier run got, and the controller never lists more than
\* one project of the lab name; after a run created one, it is the one listed.
C10_RerunIsIdempotent ==
    staleInit = 0 =>
        /\ \A i, j \in 1..Len(created) : i # j => created[i] # created[j]
        /\ CountNamed(projects, project_name(script)) <= 1
        /\ project_id # None =>
              FirstNamed(projects, project_name(script)) = project_id

\* C10 witness: the second run in a row ended, both runs created a project,
\* and one project of the lab name is listed.
C10_Witness ==
    /\ staleInit = 0
    /\ run = 2
    /\ pc = "done"
    /\ Len(created) = 2
    /\ created[1] # created[2]
    /\ CountNamed(projects, project_name(script)) = 1

\* C11: every project bearing the lab name is closed and deleted before the
\* new project is created: none is listed when the create request is issued,
\* and the created project is the only one listed under the lab name.
C11_AllStaleProjectsCleaned ==
    /\ pc = "create_project" => CountNamed(projects, project_name(script)) = 0
    /\ project_id # None =>
          /\ CountNamed(projects, project_name(script)) = 1
          /\ FirstNamed(projects, project_name(script)) = project_id

\* The indices of the trace events of that operation.
EventsOf(tr, op) == {i \in 1..Len(tr) : tr[i].op = op}

\* C12: in every run of both orchestrators, a node or link is created or a
\* node started only in the project whose creation succeeded; a link POST
\* comes after every node creation and after the node list was fetched again,
\* and its two endpoints are node ids resolved from that list; a start request
\* comes after the creation of its node and of the switch.
C12_PhaseOrdering ==
    /\ \A i \in 1..Len(trace) :
          trace[i].op \in {"create_node", "create_link"} =>
              /\ project_id # None
              /\ trace[i].id = project_id
              /\ \E j \in EventsOf(trace, "create_project") : j < i
    /\ \A i \in EventsOf(trace, "create_link") :
          /\ Cardinality({j \in EventsOf(trace, "create_node") : j < i})
                = Len(NodePlan(script))
          /\ \E k \in EventsOf(trace, "list_nodes") :
                /\ k < i
                /\ \A j \in EventsOf(trace, "create_node") : j < k
          /\ \A r \in 1..Len(RoleNames(script)) :
                \E n \in 1..Len(nodes) : nodes[n].name = RoleNames(script)[r]
    /\ \A l \in 1..Len(links) :
          \A e \in 1..2 :
              /\ links[l][e].node_id # None
              /\ \E n \in 1..Len(nodes) : nodes[n].node_id = links[l][e].node_id
    /\ \A i \in EventsOf(trace, "start") :
          /\ project_id # None
          /\ trace[i].id # None
          /\ \E j \in EventsOf(trace, "create_node") :
                j < i /\ trace[j].name = trace[i].name
          /\ \E j \in EventsOf(trace, "create_node") :
                j < i /\ trace[j].name = "Lab-Switch"
          /\ \E n \in 1..Len(nodes) :
                nodes[n].name = trace[i].name /\ nodes[n].node_id = trace[i].id

\* C12 witness: orchestrator_vbox.py has created its five nodes and four
\* links and issued the start of the switch.
C12_Witness ==
    /\ script = "orchestrator_vbox"
    /\ pc = "wait"
    /\ Len(nodes) = 5
    /\ Len(links) = 4
    /\ Cardinality(EventsOf(trace, "start")) = 1


\* Positions of the catalog entries whose name and type both match.
Matches(cat, want) ==
    {j \in 1..Len(cat) : cat[j].name = want[1] /\ cat[j].template_type = want[2]}

MinOf(S) == CHOOSE m \in S : \A x \in S : m <= x

\* C13: template resolution returns the id of the first-listed catalog entry
\* whose name and type both match the wanted pair; when no entry matches both,
\* resolution fails with "template not found" and the run goes no further.
C13_FirstMatchOrNotFound ==
    /\ \A i \in 1..Len(template_ids) :
          LET m == Matches(catalog, WantedTemplates(script)[i])
          IN  /\ m # {}
              /\ template_ids[i] = catalog[MinOf(m)].template_id
    /\ abortCause = "template_not_found" =>
          /\ Matches(catalog, WantedTemplates(script)[idx]) = {}
          /\ pc = "finally"
          /\ Len(template_ids) = idx - 1
    /\ (pc = "finally" /\ trace # <<>> /\ Last(trace).op = "templates"
            /\ ~Raises(lastResp)) =>
          abortCause = "template_not_found"
    /\ pc = "templates" => Len(template_ids) = idx - 1

\* Two entries match the first wanted template, with different ids, and the
\* first one was returned; a later resolution found no match.
C13_Witness ==
    /\ Len(template_ids) >= 1
    /\ LET m == Matches(catalog, WantedTemplates(script)[1])
       IN  /\ Cardinality(m) >= 2
           /\ \E j \in m : catalog[j].template_id # catalog[MinOf(m)].template_id
           /\ MinOf(m) > 1
    /\ abortCause = "template_not_found"


\* The names of the events of one operation, in trace order.
NamesOf(tr, op) ==
    LET evs == SelectSeq(tr, LAMBDA e : e.op = op)
    IN  [i \in 1..Len(evs) |-> evs[i].name]

\* One end of a link: adapter 0 of the node with that name, at that port.
LinkEnd(nname, port) ==
    [adapter_number |-> 0, node_id |-> NodeIdByName(nodes, nname),
     port_number |-> port]

\* C14: an orchestrator.py run against a full catalog, one compute target and
\* a controller accepting every request creates exactly one project, the three
\* nodes Lab-Switch, Red-Team-VM, Blue-Team-VM, the two links Red-Team-VM to
\* switch port 0 and Blue-Team-VM to switch port 1, starts each node once and
\* ends on the success path; a run that ends otherwise met a refused request,
\* a missing template, no compute target or an unlisted node.
C14_EndToEndScenario ==
    script = "orchestrator" =>
      /\ (pc = "done" /\ abortCause = "none") =>
            /\ successMsg
            /\ Cardinality(EventsOf(trace, "create_project")) = 1
            /\ CountNamed(projects, project_name(script)) >= 1
            /\ NamesOf(trace, "create_node")
                 = <<"Lab-Switch", "Red-Team-VM", "Blue-Team-VM">>
            /\ [i \in 1..Len(nodes) |-> nodes[i].name]
                 = <<"Lab-Switch", "Red-Team-VM", "Blue-Team-VM">>
            /\ Cardinality(EventsOf(trace, "create_link")) = 2
            /\ links = << <<LinkEnd("Red-Team-VM", 0), LinkEnd("Lab-Switch", 0)>>,
                          <<LinkEnd("Blue-Team-VM", 0), LinkEnd("Lab-Switch", 1)>> >>
            /\ NamesOf(trace, "start")
                 = <<"Lab-Switch", "Red-Team-VM", "Blue-Team-VM">>
            /\ started = {"Lab-Switch", "Red-Team-VM", "Blue-Team-VM"}
            /\ failed = {}
            /\ ~NetworkError(lastResp) => returncode = 0
      /\ (pc = "finally" /\ abortCause # "none") =>
            /\ ~successMsg
            /\ \/ abortCause \in {"controller_error", "network_error"}
                    /\ Raises(lastResp)
               \/ abortCause = "template_not_found"
                    /\ \E i \in 1..Len(WantedTemplates(script)) :
                          Matches(catalog, WantedTemplates(script)[i]) = {}
               \/ abortCause = "no_compute" /\ compute_id = None
               \/ abortCause = "node_not_found"
                    /\ \E i \in 1..Len(NodePlan(script)) :
                          NodeIdByName(nodes, NodePlan(script)[i][1]) = None
      /\ pc = "finally" => (abortCause = "none" <=> successMsg)

\* An orchestrator.py run that found a stale project ended on the success
\* path with its three nodes started.
C14_Witness ==
    /\ script = "orchestrator"
    /\ pc = "done"
    /\ successMsg
    /\ returncode = 0
    /\ staleInit >= 1
    /\ Len(links) = 2
    /\ started = {"Lab-Switch", "Red-Team-VM", "Blue-Team-VM"}


\* C15: a launch request handled while the status flag reads "Launching..."
\* is rejected: it is answered already_running with HTTP 409, starts no worker
\* thread, and leaves the status flag unchanged.
C15_LaunchWhileLaunchingRejected ==
    /\ [](\A r \in Requests :
            handler[r] = "rejected" =>
               /\ worker[r] = "none"
               /\ proc[r] = "none"
               /\ HandlerResponse(handler[r])
                    = [status |-> "already_running", code |-> 409])
    /\ [][\A r \in Requests :
            (handler[r] = "none" /\ lab_status = "Launching..."
                /\ handler'[r] # "none") =>
               /\ handler'[r] = "rejected"
               /\ worker' = worker
               /\ proc' = proc
               /\ lab_status' = lab_status]_vars

\* A request was rejected while another request's worker holds the flag at
\* "Launching...".
C15_Witness ==
    \E r, w \in Requests :
        /\ handler[r] = "rejected"
        /\ worker[r] = "none"
        /\ lab_status = "Launching..."
        /\ worker[w] \in {"launching", "running"}


\* C16: in both orchestrators a non-2xx response to the close of a stale
\* project is not fatal and the delete is still issued afterwards; a non-2xx
\* response to the delete is fatal: the run aborts and creates no project.
C16_StaleCleanupErrorPolicy ==
    /\ [][/\ (pc = "close_stale" /\ RaisesForStatus(lastResp')) =>
                /\ pc' = "delete_stale"
                /\ abortCause' = "none"
          /\ (pc = "delete_stale" /\ pc' # pc) =>
                /\ Last(trace').op \in {"delete", "sleep"}
                /\ \E i \in EventsOf(trace', "delete") :
                      /\ i >= Len(trace') - 1
                      /\ trace'[i].id = stale
          /\ (pc = "delete_stale" /\ pc' # pc
                 /\ (RaisesForStatus(lastResp') \/ NetworkError(lastResp'))) =>
                /\ pc' = "finally"
                /\ abortCause' \in {"controller_error", "network_error"}
                /\ projects' = projects]_vars
    /\ [](/\ pc = "delete_stale" =>
                /\ stale # None
                /\ Len(trace) >= 2
                /\ trace[Len(trace) - 1] = Event("close", "", stale)
                /\ Last(trace) = Event("sleep", "", 1)
          /\ (pc \in {"finally", "done"} /\ trace # <<>>
                 /\ Last(trace).op = "delete") =>
                /\ abortCause \in {"controller_error", "network_error"}
                /\ project_id = None
                /\ EventsOf(trace, "create_project") = {}
                /\ ~successMsg
          /\ \A i \in EventsOf(trace, "create_project") :
                \A j \in EventsOf(trace, "delete") :
                   j < i => trace[j + 1] = Event("sleep", "", 2))

\* The close of a stale project was refused and the run stands before the
\* delete of that project.
C16_Witness ==
    /\ pc = "delete_stale"
    /\ lastResp = 500
    /\ Last(trace) = Event("sleep", "", 1)
    /\ FirstNamed(projects, project_name(script)) = stale


\* C17: orchestrator_vbox.py never retries a start: each node receives at most
\* one start request per run, and a 409 answer to a start is treated like any
\* other error: the run aborts with no backoff wait and no second attempt.
C17_StrategyBNeverRetries ==
    script = "orchestrator_vbox" =>
      /\ \A i \in 1..Len(StartOrder) :
            /\ CountFor(startLog, StartOrder[i]) <= 1
            /\ Cardinality({j \in EventsOf(trace, "start") :
                               trace[j].name = StartOrder[i]}) <= 1
      /\ Cardinality(EventsOf(trace, "start")) = Len(startLog)
      /\ attempt = 0
      /\ failed = {}
      /\ \A j \in EventsOf(trace, "sleep") :
            /\ trace[j].name = ""
            /\ \A k \in EventsOf(trace, "start") : j < k
      /\ \A i \in 1..Len(startLog) :
            startLog[i].resp # 200 =>
               /\ i = Len(startLog)
               /\ pc \in {"finally", "done"}
               /\ abortCause = CauseOf(startLog[i].resp)
               /\ abortCause \in {"controller_error", "network_error"}
               /\ startLog[i].resp = Conflict => abortCause = CauseOf(500)
               /\ ~successMsg
               /\ Last(trace).op = "start"
               /\ Last(trace).name = startLog[i].name
               /\ startLog[i].name \notin started
               /\ polls = 0 /\ sleeps = 0

\* The second node's start was answered 409 and the run has ended.
C17_Witness ==
    /\ script = "orchestrator_vbox"
    /\ pc = "done"
    /\ Len(startLog) = 2
    /\ startLog[2] = [name |-> "Red-Team-VM", resp |-> Conflict]
    /\ abortCause = "controller_error"


\* The positions of the settle delays in the trace: the sleeps of SettleDelay
\* seconds that belong to no node.
SettleEvents(tr) ==
    {i \in EventsOf(tr, "sleep") : tr[i].name = "" /\ tr[i].id = SettleDelay}

\* C18: a run of orchestrator.py sleeps the fixed settle delay exactly once,
\* right after the last link is created and before the first start request;
\* between and during the start attempts the only sleeps are the backoffs
\* that follow a start request of the same node.
C18_OneSettleDelay ==
    script = "orchestrator" =>
      /\ Cardinality(SettleEvents(trace)) <= 1
      /\ (pc \in {"list_start", "start"} \/ EventsOf(trace, "start") # {}
             \/ successMsg) =>
            Cardinality(SettleEvents(trace)) = 1
      /\ \A s \in SettleEvents(trace) :
            /\ s > 1
            /\ trace[s - 1].op = "create_link"
            /\ Cardinality({l \in EventsOf(trace, "create_link") : l < s}) = 2
            /\ \A l \in EventsOf(trace, "create_link") : l < s
            /\ \A k \in EventsOf(trace, "start") : s < k
      /\ \A j \in EventsOf(trace, "sleep") :
            (\E k \in EventsOf(trace, "start") : k < j) =>
               /\ trace[j].name # ""
               /\ trace[j - 1].op = "start"
               /\ trace[j - 1].name = trace[j].name
               /\ \E att \in 0..(MaxAttempts - 1) : trace[j].id = wait_time(att)

\* The first node is started and the start of the second is pending, one
\* settle delay behind.
C18_Witness ==
    /\ script = "orchestrator"
    /\ pc = "start"
    /\ idx = 2
    /\ Cardinality(SettleEvents(trace)) = 1
    /\ Cardinality(EventsOf(trace, "start")) = 1


\* Some node main() created is not in the controller's node list.
RoleMissing ==
    \E i \in 1..Len(NodePlan(script)) :
        \A k \in 1..Len(nodes) : nodes[k].name # NodePlan(script)[i][1]

\* C19: if the node list fetched again after the node creations lacks an
\* expected role name, the run fails with the not-found error and aborts
\* before any link POST and before any start request.
C19_RoleResolutionGuardsLinks ==
    /\ abortCause = "node_not_found" =>
          /\ RoleMissing
          /\ pc \in {"finally", "done"}
          /\ ~successMsg
    /\ (RoleMissing /\ EventsOf(trace, "list_nodes") # {}) =>
          /\ pc \in {"finally", "done"}
          /\ abortCause \in {"node_not_found", "controller_error", "network_error"}
          /\ (pc = "finally" /\ ~Raises(lastResp)) => abortCause = "node_not_found"
          /\ EventsOf(trace, "create_link") = {}
          /\ EventsOf(trace, "start") = {}
          /\ links = <<>>
          /\ startLog = <<>>
          /\ started = {}
    /\ (pc \in {"create_link", "settle", "list_start", "start", "start_node", "wait"}
          \/ EventsOf(trace, "create_link") # {}
          \/ EventsOf(trace, "start") # {}) =>
          ~RoleMissing

\* The controller accepted all five node creations of orchestrator_vbox.py
\* but lists fewer nodes, and the run has ended on the not-found error.
C19_Witness ==
    /\ script = "orchestrator_vbox"
    /\ pc = "done"
    /\ abortCause = "node_not_found"
    /\ Cardinality(EventsOf(trace, "create_node")) = 5
    /\ NodeIdByName(nodes, "Lab-Switch") # None
    /\ NodeIdByName(nodes, "Red-Team-VM") = None


\* The run ended on a failure of the version check, of a template resolution
\* or of the compute-target lookup.
EarlyFailure ==
    /\ abortCause # "none"
    /\ trace # <<>>
    /\ Last(trace).op \in {"version", "templates", "computes"}

\* C20: a run that fails at the version check, at a template resolution or
\* (orchestrator.py) at the compute-target lookup aborts without any project
\* close, delete or create request, node or link creation or start request,
\* so the controller's projects, a stale lab project included, stay as they
\* were.
C20_EarlyFailureLeavesControllerUnchanged ==
    /\ [](/\ (pc \in {"kill_vmware", "version", "templates", "compute"}
                \/ EarlyFailure) =>
               /\ \A i \in 1..Len(trace) :
                     trace[i].op \in {"kill_vmware", "version", "templates", "computes"}
               /\ project_id = None
               /\ stale = None
               /\ nodes = <<>> /\ links = <<>>
               /\ startLog = <<>> /\ started = {}
               /\ run = 1 => /\ projects = InitialProjects(script, staleInit)
                             /\ nextId = staleInit + 2
          /\ EarlyFailure =>
               /\ pc \in {"finally", "done"}
               /\ ~successMsg
          /\ (abortCause # "none" /\ EventsOf(trace, "list_projects") = {}) =>
               EarlyFailure)
    /\ [][(pc \in {"kill_vmware", "version", "templates", "compute"}
             \/ (EarlyFailure /\ pc = "finally")) =>
            /\ projects' = projects
            /\ nextId' = nextId
            /\ nodes' = nodes
            /\ links' = links]_vars

\* orchestrator.py found no compute target while a stale lab project exists;
\* the run has ended and the project list is the one it started with.
C20_Witness ==
    /\ script = "orchestrator"
    /\ pc = "done"
    /\ abortCause = "no_compute"
    /\ staleInit >= 1
    /\ run = 1
    /\ CountNamed(projects, project_name(script)) = staleInit
    /\ Last(trace).op = "computes"


\* The startLog with repeated requests to one node collapsed: the nodes in
\* the order the start loop visited them.
RECURSIVE Visited(_)
Visited(log) ==
    IF log = <<>> THEN <<>>
    ELSE IF Len(log) >= 2 /\ log[Len(log) - 1].name = Last(log).name
         THEN Visited(SubSeq(log, 1, Len(log) - 1))
         ELSE Append(Visited(SubSeq(log, 1, Len(log) - 1)), Last(log).name)

\* The most polls one wait can make: one per poll interval of the timeout.
MaxPolls == timeout \div PollInterval

\* C21: every orchestrator run ends when each request returns; orchestrator.py
\* issues at most 5 start requests per node and its start loop visits each
\* listed node once; each wait of orchestrator_vbox.py makes at least one and
\* at most 36 polls before it returns or times out.
C21_RunsTerminateWithinBounds ==
    /\ (pc # "done") ~> (pc = "done")
    /\ [](script = "orchestrator" =>
            /\ attempt < MaxAttempts
            /\ \A i \in 1..Len(nodes_to_start) :
                  CountFor(startLog, nodes_to_start[i].name) <= MaxAttempts
            /\ Len(Visited(startLog)) <= Len(nodes_to_start)
            /\ \A i \in 1..Len(Visited(startLog)) :
                  Visited(startLog)[i] = nodes_to_start[i].name
            /\ successMsg =>
                  \A i \in 1..Len(nodes_to_start) :
                     CountFor(startLog, nodes_to_start[i].name) >= 1)
    /\ [](script = "orchestrator_vbox" =>
            /\ polls <= MaxPolls
            /\ MaxPolls = 36
            /\ (pc = "wait" /\ ~LoopCondition(elapsed)) => polls >= 1
            /\ JustReturned => polls >= 1
            /\ (waitResult = "timeout" /\ pc = "finally") => polls >= 1
            /\ pc = "wait" => elapsed >= polls * PollInterval)

\* A wait of orchestrator_vbox.py whose requests took no time timed out after
\* 36 polls.
C21_Witness ==
    /\ script = "orchestrator_vbox"
    /\ pc = "finally"
    /\ waitResult = "timeout"
    /\ polls = MaxPolls
    /\ elapsed = timeout


\* The values run_orchestrator_script() leaves in lab_status when it ends.
FinalStatuses == {"Successfully Deployed", "Error"}

\* C22: the status flag never gets stuck at "Launching...": every worker an
\* accepted launch started sets it to "Successfully Deployed" or "Error" when
\* its subprocess has terminated or could not be spawned, and a launch request
\* handled while the flag holds one of these is accepted and starts a new pass.
C22_FlagNeverStuck ==
    /\ \A w \in Requests :
          (worker[w] # "none") ~> (worker[w] = "finished" /\ lab_status \in FinalStatuses)
    /\ []((\A w \in Requests : worker[w] \in {"none", "finished"}) =>
             lab_status # "Launching...")
    /\ [][\A w \in Requests :
            (worker[w] # "finished" /\ worker'[w] = "finished") =>
               lab_status' \in FinalStatuses]_vars
    /\ [][\A r \in Requests :
            (handler[r] = "none" /\ lab_status \in FinalStatuses
                /\ handler'[r] # "none") =>
               handler'[r] = "checked"]_vars
    /\ \A r \in Requests :
          (handler[r] = "checked") ~> (handler[r] = "accepted" /\ worker[r] # "none")
    /\ [](\A r \in Requests :
            HandlerResponse(handler[r]).status = "success" <=> handler[r] # "rejected")

\* A pass whose subprocess could not be spawned has ended, and a launch
\* request accepted afterwards has its worker inside a new pass.
C22_Witness ==
    \E w, r \in Requests :
        /\ w # r
        /\ worker[w] = "finished"
        /\ proc[w] = "spawn_failed"
        /\ handler[r] = "accepted"
        /\ worker[r] = "launching"
        /\ lab_status = "Launching..."
        /\ \A v \in Requests \ {w, r} : handler[v] = "none"

====
